---- MODULE Spec2Model ----
(***************************************************************************)
(* Model of the commensal-automator coordinator: the coordinator loop      *)
(* (coordinator/coordinator.py), the recording orchestration               *)
(* (coordinator/rec_util.py) and the generic retry helper                  *)
(* (automator/util.py).                                                    *)
(*                                                                         *)
(* Python values.  A value that is either None or something else is a      *)
(* record with a field `none`; the other fields are present only when      *)
(* `none` is FALSE.  A dict read from Redis is a record whose field `keys` *)
(* is the set of keys present.  Decimal strings (PKTIDX values read with   *)
(* decode_responses=True) are sequences of digits.  Wall-clock time is     *)
(* counted in whole seconds.                                               *)
(*                                                                         *)
(* The sources are a snapshot that was never executed: rec_util.py does    *)
(* not compile (the f-string of line 75, the colon ending line 96),        *)
(* record calls write_metadata with two undefined names (line 99),         *)
(* request_targets adds a string and a float (line 146), and               *)
(* Coordinator reads attributes it never sets (self.red, self.redis_server,*)
(* self.subscribed).  Faults of this kind, which happen on every execution *)
(* whatever the input, are read as the statements they evidently stand     *)
(* for.  Faults that depend on the input (a KeyError on an unknown scope,  *)
(* an exception raised by a malformed value) are modelled as they are.     *)
(*                                                                         *)
(* The state classes (coordinator.states, coordinator.state_machines) and  *)
(* coordinator.redis_util are not part of the sources; their transitions   *)
(* and helpers are modelled from the design document and are marked so.    *)
(***************************************************************************)
EXTENDS Integers, Sequences, FiniteSets, TLC

VARIABLES
    act,        \* recproc_machines[array].state: Ready, Recording, Processing
    mem,        \* freesubscribed_machines[array].state: Free, Subscribed
    free,       \* Coordinator.free: the instances no subarray has claimed
    subscribed, \* Coordinator.subscribed[array]: the set both machines share
    recording,  \* per array, the set record returned for the current session
    returned,   \* per array, the instances whose RETURN Processing has seen
    loop,       \* position of the coordinator loop, the locals of record and
                \* the gateway messages it has published in this call
    bus,        \* messages published by timers, not yet yielded by listen()
    recTimers,  \* per array, armed recording-timeout timers (line 102)
    calTimers,  \* per array, armed calibration timers (line 33)
    lastCal,    \* the value of <array>:last-cal of one subarray
    lastConfig, \* the value of <array>:last-config of that subarray
    phaseup,    \* what TelInt.get_phaseup_time() returns at present
    calThreads, \* the get_cals executions of that subarray, one per timer
    rt,         \* one call of util.retry: its arguments and its result
    pk,         \* one call of rec_util.get_pktstart: its inputs and its result
    tg,         \* the target lookup of one record call (rec_util.py lines 26-29)
    pr          \* one invocation of proc.process: its inputs and its outcome

coordVars == <<act, mem, free, subscribed, recording, returned>>
mainVars == <<act, mem, free, subscribed, recording, returned, loop, bus,
              recTimers, calTimers>>
calVars == <<lastCal, lastConfig, phaseup, calThreads>>
vars == <<act, mem, free, subscribed, recording, returned, loop, bus,
          recTimers, calTimers, lastCal, lastConfig, phaseup, calThreads, rt, pk, tg, pr>>

(***************************************************************************)
(* Bounds of the model                                                     *)
(***************************************************************************)
MaxRetries == 3         \* util.retry is called with retries in 0..MaxRetries
MaxQueue == 1           \* timer messages waiting on the bus
MaxTimers == 1          \* armed timers of one kind per subarray
MaxPhaseup == 2         \* phase-up timestamps are in 0..MaxPhaseup
NumCalThreads == 2      \* calibration timers of one subarray that may overlap

(***************************************************************************)
(* Program constants                                                       *)
(***************************************************************************)
PKTIDX_MARGIN == 2048   \* rec_util.py: PKTIDX_MARGIN
DEFAULT_DWELL == 290    \* rec_util.py: DEFAULT_DWELL
TWO_MINUTES == 120      \* rec_util.py: timedelta(minutes=2), in seconds
TARGET_RETRIES == 5     \* rec_util.py: util.retry(5, 5, get_primary_target, ...)

Arrays == {"array1", "array2"}                  \* config["arrays"]
CfgInstances == {"blpn0/0", "blpn0/1"}          \* config["instances"]
Instances == CfgInstances \cup {"blpn1/0"}      \* instances get_pktstart is asked about

(***************************************************************************)
(* automator/util.py: retry                                                *)
(***************************************************************************)
PyNone == [none |-> TRUE]
PyZero == [none |-> FALSE, int |-> 0]
IsFalsy(v) == v.none \/ v = PyZero       \* `not v`
RetValues == {PyNone, PyZero, [none |-> FALSE, int |-> 1], [none |-> FALSE, int |-> 2]}

\* What one invocation of `function(*args)` does: raise, or return a value.
Outcomes == [raises : {TRUE}, value : {PyNone}] \cup [raises : {FALSE}, value : RetValues]

\* `if not output` (line 96) or `except Exception` (line 100): the attempt is
\* a failed one and the loop goes on to the next.
AttemptFailsNoneOnly(o) == o.raises \/ o.value.none
AttemptFails(o) == o.raises \/ IsFalsy(o.value)

\* `except Exception` (line 100) catches whatever the invocation raises.
Caught(o) == o.raises

\* The loop `for _ in range(retries)` from attempt i on.  outs[i] is what the
\* i-th invocation does.  Result: the value returned (None when the loop runs
\* out), whether an exception left retry, the number of invocations made
\* and the number of time.sleep(delay) calls.
RECURSIVE RetryFrom(_, _, _, _)
RetryFrom(retries, outs, i, sleeps) ==
    IF i > retries
    THEN [output |-> PyNone, raised |-> FALSE, calls |-> i - 1, sleeps |-> sleeps]
    ELSE IF outs[i].raises /\ ~Caught(outs[i])
    THEN [output |-> PyNone, raised |-> TRUE, calls |-> i, sleeps |-> sleeps]
    ELSE IF AttemptFails(outs[i])
    THEN RetryFrom(retries, outs, i + 1, IF outs[i].raises THEN sleeps ELSE sleeps + 1)
    ELSE [output |-> outs[i].value, raised |-> FALSE, calls |-> i, sleeps |-> sleeps]

retry(retries, outs) == RetryFrom(retries, outs, 1, 0)

RetryInputs ==
    [pc : {"call"}, retries : 0..MaxRetries, outs : [1..MaxRetries -> Outcomes]]

RetryOff == rt = [pc |-> "off"]

RetryCall ==
    /\ rt.pc = "call"
    /\ rt' = [pc |-> "done", retries |-> rt.retries, outs |-> rt.outs,
              res |-> retry(rt.retries, rt.outs)]
    /\ UNCHANGED <<mainVars, calVars, pk, tg, pr>>

(***************************************************************************)
(* coordinator/rec_util.py: get_pkt_idx, get_pktstart                      *)
(***************************************************************************)
Digits == 0..9

RECURSIVE StrToInt(_)
StrToInt(s) ==      \* np.asarray(pkt_indices, dtype=np.int64) on one string
    IF Len(s) = 0 THEN 0
    ELSE 10 * StrToInt(SubSeq(s, 1, Len(s) - 1)) + s[Len(s)]

Abs(x) == IF x < 0 THEN -x ELSE x

\* Status hashes r.hgetall(<HPGDOMAIN>://<instance>/status) may return.
NoKey == <<>>
StatusVals ==
    { [keys |-> {}, NETSTAT |-> "", PKTIDX |-> NoKey],
      [keys |-> {"PKTIDX"}, NETSTAT |-> "", PKTIDX |-> <<2, 0, 0>>],
      [keys |-> {"NETSTAT", "PKTIDX"}, NETSTAT |-> "idle", PKTIDX |-> <<2, 0, 0>>],
      [keys |-> {"NETSTAT"}, NETSTAT |-> "receiving", PKTIDX |-> NoKey] }
    \cup [keys : {{"NETSTAT", "PKTIDX"}}, NETSTAT : {"receiving"},
          PKTIDX : {<<1, 0, 0>>, <<1, 5, 0>>, <<2, 0, 0>>}]

NoPktIdx == [none |-> TRUE]

get_pkt_idx_idle_too(daq_status) ==
    IF "NETSTAT" \in daq_status.keys /\ "PKTIDX" \in daq_status.keys
    THEN [none |-> FALSE, str |-> daq_status.PKTIDX]
    ELSE NoPktIdx

get_pkt_idx(daq_status) ==
    IF Cardinality(daq_status.keys) > 0
    THEN IF "NETSTAT" \in daq_status.keys
         THEN IF daq_status.NETSTAT # "idle"
              THEN IF "PKTIDX" \in daq_status.keys
                   THEN [none |-> FALSE, str |-> daq_status.PKTIDX]
                   ELSE NoPktIdx
              ELSE NoPktIdx
         ELSE NoPktIdx
    ELSE NoPktIdx

\* `if not pkt_index: continue` (lines 367-368)
NotPktIndex(p) == p.none \/ Len(p.str) = 0

\* The loop of lines 364-369 over `instances` in iteration order.
RECURSIVE CollectPktIndices(_, _)
CollectPktIndices(instances, status) ==
    IF Len(instances) = 0 THEN <<>>
    ELSE LET pkt_index == get_pkt_idx(status[Head(instances)])
             rest == CollectPktIndices(Tail(instances), status)
         IN IF NotPktIndex(pkt_index) THEN rest ELSE <<StrToInt(pkt_index.str)>> \o rest

SeqMax(s) == CHOOSE m \in {s[i] : i \in DOMAIN s} : \A i \in DOMAIN s : s[i] <= m
SeqMin(s) == CHOOSE m \in {s[i] : i \in DOMAIN s} : \A i \in DOMAIN s : m <= s[i]

\* pktstart = np.max(pkt_indices) + margin (line 379)
PktstartOfMin(pkt_indices, margin) == SeqMin(pkt_indices) + margin
PktstartOf(pkt_indices, margin) == SeqMax(pkt_indices) + margin

\* redis_util.pktidx_to_timestamp: packet index to seconds, at a fixed rate
\* of one packet per second counted from the synchronisation epoch 0.
pktidx_to_timestamp(pktidx) == pktidx

\* strftime("%Y%m%dT%H%M%SZ") of the timestamp's datetime
Strftime(ts) == <<"YmdTHMSZ", ts>>

\* abs(pktstart_dt - datetime.utcnow()) > timedelta(minutes=2) (line 388)
ImplausibleInclusive(pktstart_ts, now) == Abs(pktstart_ts - now) >= TWO_MINUTES
Implausible(pktstart_ts, now) == Abs(pktstart_ts - now) > TWO_MINUTES

\* Result: None or the dict of lines 395-399; `alert` tells whether
\* redis_util.alert was called (line 390).
get_pktstart(instances, status, margin, now) ==
    LET pkt_indices == CollectPktIndices(instances, status) IN
    IF Len(pkt_indices) > 0
    THEN LET pktstart == PktstartOf(pkt_indices, margin)
             pktstart_timestamp == pktidx_to_timestamp(pktstart)
         IN IF Implausible(pktstart_timestamp, now)
            THEN [none |-> TRUE, alert |-> TRUE]
            ELSE [none |-> FALSE, alert |-> FALSE,
                  pktstart |-> pktstart,
                  pktstart_str |-> Strftime(pktstart_timestamp),
                  pktstart_ts |-> pktstart_timestamp]
    ELSE [none |-> TRUE, alert |-> FALSE]

\* The orders in which a collection of instances can be iterated.
InstanceOrders ==
    {s \in UNION {[1..n -> Instances] : n \in 0..Cardinality(Instances)} :
        \A i, j \in DOMAIN s : i # j => s[i] # s[j]}

Margins == {50, PKTIDX_MARGIN}
Skews == {-121, -120, 0, 120, 121}

PktInputs ==
    UNION {[pc : {"call"}, instances : InstanceOrders, status : [Instances -> StatusVals],
            margin : {m}, now : {pktidx_to_timestamp(150 + m) + d : d \in Skews}]
           : m \in Margins}

PktOff == pk = [pc |-> "off"]

PktstartCall ==
    /\ pk.pc = "call"
    /\ pk' = [pc |-> "done", instances |-> pk.instances, status |-> pk.status,
              margin |-> pk.margin, now |-> pk.now,
              res |-> get_pktstart(pk.instances, pk.status, pk.margin, pk.now)]
    /\ UNCHANGED <<mainVars, calVars, rt, tg, pr>>

(***************************************************************************)
(* coordinator/rec_util.py: get_primary_target, centre_freq, conversions   *)
(***************************************************************************)
GRACE == 5      \* rec_util.py: target_ts < last_track_end - 5

\* What the three r.get of lines 263-265 return.  `missing`: one of the
\* timestamp keys is not set, so that float(None) raises.
Target1 == [radec |-> TRUE, name |-> "J0918-1205", ra |-> <<9, 18, 5>>,
            dec |-> [neg |-> TRUE, d |-> -12, m |-> 5, s |-> 48]]
Target2 == [radec |-> FALSE, name |-> "azel-target", ra |-> <<0, 0, 0>>,
            dec |-> [neg |-> FALSE, d |-> 0, m |-> 0, s |-> 0]]
\* A target whose right ascension lacks the seconds field ("9:18").
Target3 == [radec |-> TRUE, name |-> "J0918-1205", ra |-> <<9, 18>>,
            dec |-> [neg |-> TRUE, d |-> -12, m |-> 5, s |-> 48]]
TargetReads ==
    [missing : {FALSE}, target : {Target1, Target2, Target3}, ts : {94, 95}, last : {100}]
    \cup [missing : {TRUE}, target : {Target1}, ts : {0}, last : {0}]

\* The reads the coordinator model draws from: a missing key, a stale
\* target, a current one and a current one with a short right ascension.
MainTargetReads ==
    {rd \in TargetReads : \/ rd.missing
                          \/ rd.target = Target1 /\ rd.ts \in {94, 95}
                          \/ rd.target = Target3 /\ rd.ts = 95}

\* `target_ts < last_track_end - 5` (line 269): the target was last updated
\* during the preceding track.
StaleInclusive(target_ts, last_track_end) == target_ts <= last_track_end - GRACE
Stale(target_ts, last_track_end) == target_ts < last_track_end - GRACE

\* One invocation of get_primary_target, as retry sees it.
get_primary_target(rd) ==
    IF rd.missing THEN [raises |-> TRUE, value |-> PyNone]
    ELSE IF Stale(rd.ts, rd.last) THEN [raises |-> FALSE, value |-> PyNone]
    ELSE IF rd.target.radec
    THEN [raises |-> FALSE,
          value |-> [none |-> FALSE, target |-> rd.target.name,
                     ra |-> rd.target.ra, dec |-> rd.target.dec]]
    ELSE [raises |-> FALSE, value |-> PyNone]

\* record, lines 26-29: util.retry(5, 5, get_primary_target, ...), reads[i]
\* being what the i-th invocation finds in Redis.
TargetOuts(reads) == [i \in 1..TARGET_RETRIES |-> get_primary_target(reads[i])]
retry_target(reads) == retry(TARGET_RETRIES, TargetOuts(reads))

TargetInputs == [pc : {"call"}, reads : [1..TARGET_RETRIES -> TargetReads]]

TargetOff == tg = [pc |-> "off"]

\* Lines 26-29 on their own: `if not target_data: return` ends record
\* ("aborted"), otherwise record goes on to line 33 ("cals").
TargetCall ==
    /\ tg.pc = "call"
    /\ LET res == retry_target(tg.reads)
       IN tg' = [pc |-> IF IsFalsy(res.output) THEN "aborted" ELSE "cals",
                 reads |-> tg.reads, outs |-> TargetOuts(tg.reads), res |-> res]
    /\ UNCHANGED <<mainVars, calVars, rt, pk, pr>>

\* ra_s.split(':') has no third element: float(ra[2]) raises IndexError
\* (util.py line 124).
RaRaises(ra) == Len(ra) < 3

\* util.ra_degrees, in units of 1/240 degree (one second of time)
ra_degrees(ra) == ra[1] * 3600 + ra[2] * 60 + ra[3]

\* util.dec_degrees, in units of 1/3600 degree
dec_degrees(dec) ==
    IF dec.neg THEN dec.d * 3600 - dec.m * 60 - dec.s
    ELSE dec.d * 3600 + dec.m * 60 + dec.s

\* centre_freq: the sensor value in MHz, or None when the read or the
\* conversion raises (lines 172-183).
SensorVals == {[none |-> TRUE], [none |-> FALSE, hz |-> 1284000000]}
centre_freq(sensor) ==
    IF sensor.none THEN PyNone ELSE [none |-> FALSE, mhz |-> sensor.hz \div 1000000]

(***************************************************************************)
(* The state machines (modelled from the design document)                  *)
(***************************************************************************)
\* A bus message: the components of its data between colons, and for a
\* subscribe event the instances it carries.
Msg(data, insts) == [data |-> data, insts |-> insts]

\* proc.py line 110: the string lacks the f prefix, so that every processing
\* script calls itself "f{host}/{n}" whatever its host and number.
ProcName == "f{host}/{n}"

\* proc.py line 164: f"RETURN:{name}:{max_returncode}"
ReturnMsg(name, max_returncode) == Msg(<<"RETURN", name, max_returncode>>, {})

\* What the channel can carry: the events of the clients, the RETURN of a
\* processing script under the name of its instance or under ProcName, a
\* message without an event and an event for a subarray that is not
\* configured.
ExtMessages ==
    {Msg(<<a, e>>, {}) : a \in Arrays, e \in {"unsubscribe", "start", "stop"}}
    \cup {Msg(<<a, "subscribe">>, S) : a \in Arrays, S \in SUBSET CfgInstances \ {{}}}
    \cup {ReturnMsg(i, "0") : i \in CfgInstances \cup {ProcName}}
    \cup {Msg(<<"garbage">>, {}), Msg(<<"array9", "start">>, {})}

\* timeout (lines 438-441): f"rec-timeout:{array}"
TimeoutMsgArrayFirst(array) == Msg(<<array, "rec-timeout">>, {})
TimeoutMsg(array) == Msg(<<"rec-timeout", array>>, {})

\* redis_util.parse_msg: the components of the message, or nothing when the
\* message has no event component.
parse_msg(message) ==
    IF Len(message.data) < 2 THEN PyNone ELSE [none |-> FALSE, c |-> message.data]

\* FreeSubscribedMachine: Free -> Subscribed on a subscribe event claiming
\* free instances, Subscribed -> Free on an unsubscribe event.
SubscribeLegal(a, message) ==
    /\ message.data[2] = "subscribe"
    /\ mem[a] = "Free"
    /\ message.insts # {}
    /\ message.insts \subseteq free

UnsubscribeLegal(a, message) ==
    /\ message.data[2] = "unsubscribe"
    /\ mem[a] = "Subscribed"

\* RecProcMachine: Ready -> Recording on "start" while instances are
\* subscribed, Recording -> Processing on "stop" or a recording timeout,
\* Processing -> Ready once every recording instance has returned.
StartLegalAnyMembership(a, event, subs) == event = "start" /\ act[a] = "Ready"
StartLegalAnyActivity(a, event, subs) == event = "start" /\ subs # {}
StartLegal(a, event, subs) == event = "start" /\ act[a] = "Ready" /\ subs # {}

StopLegalAnyActivity(a, event) == event \in {"stop", "rec-timeout"}
StopLegal(a, event) == event \in {"stop", "rec-timeout"} /\ act[a] = "Recording"

\* The returns a machine in Processing has after a RETURN message from inst.
CountsAnyInstance(a, inst) == returned[a] \cup {inst}
Counts(a, inst) == IF inst \in recording[a] THEN returned[a] \cup {inst} ELSE returned[a]

ReturnLegal(a, message) == act[a] = "Processing"

(***************************************************************************)
(* coordinator/coordinator.py: Coordinator.start, processing_return        *)
(***************************************************************************)
\* The states the machines are seeded with (lines 40-41).
SeedActivityIdle == "Idle"
SeedActivity == "Ready"
SeedMembership == "Free"


\* The loop waits in ps.listen(); `last` and `msg` tell which message it
\* handled before and how that ended.
Listen(last, message) == [pc |-> "listen", last |-> last, msg |-> message]

InitMain ==
    /\ act = [a \in Arrays |-> SeedActivity]
    /\ mem = [a \in Arrays |-> SeedMembership]
    /\ free = CfgInstances
    /\ subscribed = [a \in Arrays |-> {}]
    /\ recording = [a \in Arrays |-> {}]
    /\ returned = [a \in Arrays |-> {}]
    /\ loop = Listen("none", Msg(<<>>, {}))
    /\ bus = <<>>
    /\ recTimers = [a \in Arrays |-> 0]
    /\ calTimers = [a \in Arrays |-> 0]

MainOff ==
    /\ act = [a \in Arrays |-> SeedActivity]
    /\ mem = [a \in Arrays |-> SeedMembership]
    /\ free = CfgInstances
    /\ subscribed = [a \in Arrays |-> {}]
    /\ recording = [a \in Arrays |-> {}]
    /\ returned = [a \in Arrays |-> {}]
    /\ loop = [pc |-> "off"]
    /\ bus = <<>>
    /\ recTimers = [a \in Arrays |-> 0]
    /\ calTimers = [a \in Arrays |-> 0]

\* ps.listen() yields a message an outside client published (line 48).
ReceiveExt ==
    /\ loop.pc = "listen"
    /\ \E m \in ExtMessages : loop' = [pc |-> "dispatch", msg |-> m]
    /\ UNCHANGED <<coordVars, bus, recTimers, calTimers, calVars, rt, pk, tg, pr>>

\* ps.listen() yields the oldest message a timer published (line 48).
ReceiveBus ==
    /\ loop.pc = "listen"
    /\ bus # <<>>
    /\ loop' = [pc |-> "dispatch", msg |-> Head(bus)]
    /\ bus' = Tail(bus)
    /\ UNCHANGED <<coordVars, recTimers, calTimers, calVars, rt, pk, tg, pr>>

\* `if components:` fails (line 53): the message is passed over.
DispatchDrop ==
    /\ loop.pc = "dispatch"
    /\ parse_msg(loop.msg).none
    /\ loop' = Listen("dropped", loop.msg)
    /\ UNCHANGED <<coordVars, bus, recTimers, calTimers, calVars, rt, pk, tg, pr>>

DispatchReturnFirstOnly ==
    /\ loop.pc = "dispatch"
    /\ ~parse_msg(loop.msg).none
    /\ parse_msg(loop.msg).c[1] = "RETURN"
    /\ LET inst == parse_msg(loop.msg).c[2]
           took == {a \in {"array1"} : ReturnLegal(a, loop.msg)}
           done == {a \in took : Counts(a, inst) = recording[a]}
       IN /\ act' = [a \in Arrays |-> IF a \in done THEN "Ready" ELSE act[a]]
          /\ returned' = [a \in Arrays |->
                IF a \in done THEN {} ELSE IF a \in took THEN Counts(a, inst)
                ELSE returned[a]]
          /\ recording' = [a \in Arrays |-> IF a \in done THEN {} ELSE recording[a]]
          /\ loop' = Listen(IF took = {} THEN "rejected" ELSE "applied", loop.msg)
    /\ UNCHANGED <<mem, free, subscribed, bus, recTimers, calTimers, calVars, rt, pk, tg, pr>>

\* processing_return (lines 62-68): every recproc machine gets the message.
DispatchReturn ==
    /\ loop.pc = "dispatch"
    /\ ~parse_msg(loop.msg).none
    /\ parse_msg(loop.msg).c[1] = "RETURN"
    /\ LET inst == parse_msg(loop.msg).c[2]
           took == {a \in Arrays : ReturnLegal(a, loop.msg)}
           done == {a \in took : Counts(a, inst) = recording[a]}
       IN /\ act' = [a \in Arrays |-> IF a \in done THEN "Ready" ELSE act[a]]
          /\ returned' = [a \in Arrays |->
                IF a \in done THEN {} ELSE IF a \in took THEN Counts(a, inst)
                ELSE returned[a]]
          /\ recording' = [a \in Arrays |-> IF a \in done THEN {} ELSE recording[a]]
          /\ loop' = Listen(IF took = {} THEN "rejected" ELSE "applied", loop.msg)
    /\ UNCHANGED <<mem, free, subscribed, bus, recTimers, calTimers, calVars, rt, pk, tg, pr>>

\* components[0] names no configured subarray: the dict lookup of line 59
\* raises KeyError, which nothing catches, and start() ends.
DispatchUnknown ==
    /\ loop.pc = "dispatch"
    /\ ~parse_msg(loop.msg).none
    /\ parse_msg(loop.msg).c[1] \notin Arrays \cup {"RETURN"}
    /\ loop' = [pc |-> "crashed"]
    /\ UNCHANGED <<coordVars, bus, recTimers, calTimers, calVars, rt, pk, tg, pr>>

\* Lines 38-41: both machines of a subarray are given the same set object
\* self.subscribed[array], so that the activity machine sees the set `subs`
\* as the membership machine has left it (a set of its own would stay as
\* empty as line 38 made it).
ActivitySubscribedOwn(array, subs) == {}
ActivitySubscribed(array, subs) == subs

\* Lines 57-60: the event goes to the membership machine of the subarray,
\* then to its activity machine.  A legal "start" begins record, whose
\* steps follow; every other event is handled at once.
DispatchEvent ==
    /\ loop.pc = "dispatch"
    /\ ~parse_msg(loop.msg).none
    /\ parse_msg(loop.msg).c[1] \in Arrays
    /\ LET array == parse_msg(loop.msg).c[1]
           event == parse_msg(loop.msg).c[2]
           sub == SubscribeLegal(array, loop.msg)
           unsub == UnsubscribeLegal(array, loop.msg)
           subs == IF sub THEN loop.msg.insts ELSE IF unsub THEN {} ELSE subscribed[array]
           start == StartLegal(array, event, ActivitySubscribed(array, subs))
           stop == StopLegal(array, event)
       IN /\ mem' = [mem EXCEPT ![array] =
                IF sub THEN "Subscribed" ELSE IF unsub THEN "Free" ELSE @]
          /\ subscribed' = [subscribed EXCEPT ![array] = subs]
          /\ free' = IF sub THEN free \ loop.msg.insts
                     ELSE IF unsub THEN free \cup subscribed[array] ELSE free
          /\ act' = [act EXCEPT ![array] = IF stop THEN "Processing" ELSE @]
          /\ returned' = [returned EXCEPT ![array] = IF stop THEN {} ELSE @]
          /\ start => recTimers[array] < MaxTimers /\ calTimers[array] < MaxTimers
          /\ loop' = IF start
                     THEN [pc |-> "target", msg |-> loop.msg, array |-> array,
                           instances |-> ActivitySubscribed(array, subs),
                           written |-> <<>>]
                     ELSE Listen(IF sub \/ unsub \/ stop THEN "applied" ELSE "rejected",
                                 loop.msg)
    /\ UNCHANGED <<recording, bus, recTimers, calTimers, calVars, rt, pk, tg, pr>>

RecTimerFiresDirect ==
    \E a \in Arrays :
        /\ recTimers[a] > 0
        /\ recTimers' = [recTimers EXCEPT ![a] = @ - 1]
        /\ act' = [act EXCEPT ![a] = IF @ = "Recording" THEN "Processing" ELSE @]
        /\ UNCHANGED <<mem, free, subscribed, recording, returned, loop, bus,
                       calTimers, calVars, rt, pk, tg, pr>>

\* The recording timer of a subarray fires: timeout publishes (line 441).
RecTimerFires ==
    \E a \in Arrays :
        /\ recTimers[a] > 0
        /\ Len(bus) < MaxQueue
        /\ recTimers' = [recTimers EXCEPT ![a] = @ - 1]
        /\ bus' = Append(bus, TimeoutMsg(a))
        /\ UNCHANGED <<coordVars, loop, calTimers, calVars, rt, pk, tg, pr>>

\* The calibration timer of a subarray fires and get_cals runs in its own
\* thread; it reads and writes calibration keys only.
CalTimerFires ==
    \E a \in Arrays :
        /\ calTimers[a] > 0
        /\ calTimers' = [calTimers EXCEPT ![a] = @ - 1]
        /\ UNCHANGED <<coordVars, loop, bus, recTimers, calVars, rt, pk, tg, pr>>

(***************************************************************************)
(* coordinator/rec_util.py: record, step by step                           *)
(***************************************************************************)
\* The set_group_key calls of lines 63-80 in program order.
GroupKeyOrderObsidLast ==
    <<"SRC_NAME", "RA", "RA_STR", "DEC", "DEC_STR", "PKTSTART", "OBSID">>
GroupKeyOrder ==
    <<"SRC_NAME", "RA", "RA_STR", "DEC", "DEC_STR", "OBSID", "PKTSTART">>

Obsid(array, pktstart_str) == <<"MeerKAT", array, pktstart_str>>        \* line 75
Datadir(n, pktstart_str, sb_id) == <<"/buf", n, pktstart_str, sb_id>>   \* line 216

\* redis_util.set_group_key, redis_util.gateway_msg: the message published
\* to the gateway group of the subarray.
GatewayMsg(key, value) == [key |-> key, value |-> <<value>>]

\* str(pktstart) (line 80)
PyStr(x) == <<"str", x>>

\* The value record sets for a group key, from its locals l.
GroupKeyValue(key, l) ==
    CASE key = "SRC_NAME" -> l.target_data.target
      [] key = "RA" -> ra_degrees(l.target_data.ra)
      [] key = "RA_STR" -> l.target_data.ra
      [] key = "DEC" -> dec_degrees(l.target_data.dec)
      [] key = "DEC_STR" -> l.target_data.dec
      [] key = "OBSID" -> Obsid(l.array, l.pktstart_data.pktstart_str)
      [] key = "PKTSTART" -> PyStr(l.pktstart_data.pktstart)

SbIds == {"20230920-0001"}      \* redis_util.sb_id
NowVals == {pktidx_to_timestamp(150 + PKTIDX_MARGIN) + d : d \in Skews}
Orders(S) == {s \in InstanceOrders : {s[i] : i \in DOMAIN s} = S}

\* The packet indices of the instances of S that report one.
Reports(st) ==
    /\ "NETSTAT" \in st.keys
    /\ st.NETSTAT # "idle"
    /\ "PKTIDX" \in st.keys
    /\ st.PKTIDX # <<>>
Reported(S, status) == {StrToInt(status[i].PKTIDX) : i \in {j \in S : Reports(status[j])}}

\* Lines 26-35: the target, with retries; then the calibration timer.
RecordTarget ==
    /\ loop.pc = "target"
    /\ \E reads \in [1..TARGET_RETRIES -> MainTargetReads] :
         LET target_data == retry_target(reads).output
         IN IF IsFalsy(target_data)
            THEN loop' = Listen("aborted", loop.msg) /\ UNCHANGED calTimers
            ELSE /\ loop' = [pc |-> "dwell", msg |-> loop.msg, array |-> loop.array,
                             instances |-> loop.instances, written |-> loop.written,
                             target_data |-> target_data]
                 /\ calTimers' = [calTimers EXCEPT ![loop.array] = @ + 1]
    /\ UNCHANGED <<coordVars, bus, recTimers, calVars, rt, pk, tg, pr>>

\* Line 41: DWELL.
RecordDwell ==
    /\ loop.pc = "dwell"
    /\ loop' = [loop EXCEPT !.pc = "pktstart",
                             !.written = Append(@, GatewayMsg("DWELL", DEFAULT_DWELL))]
    /\ UNCHANGED <<coordVars, bus, recTimers, calTimers, calVars, rt, pk, tg, pr>>

\* Line 44: get_pktstart reads the status hashes and the clock.  `reported`
\* and `now` keep what it was given until line 45 has looked at the result,
\* `silent` the instances that reported no packet index.
RecordPktstart ==
    /\ loop.pc = "pktstart"
    /\ \E status \in [loop.instances -> StatusVals], now \in NowVals :
         \E order \in Orders(loop.instances) :
            loop' = [pc |-> "pktstart_check", msg |-> loop.msg, array |-> loop.array,
                     instances |-> loop.instances, written |-> loop.written,
                     target_data |-> loop.target_data,
                     pktstart_data |-> get_pktstart(order, status, PKTIDX_MARGIN, now),
                     reported |-> Reported(loop.instances, status), now |-> now,
                     silent |-> {i \in loop.instances : ~Reports(status[i])}]
    /\ UNCHANGED <<coordVars, bus, recTimers, calTimers, calVars, rt, pk, tg, pr>>

\* `if not pktstart_data: return` (line 45) and `if not fecenter: return`
\* (line 54).
AbortsOnPktstart(pktstart_data) == IsFalsy(pktstart_data)

\* Lines 45-59: give up without PKTSTART or FECENTER, else read the
\* schedule block id.
RecordPktstartCheck ==
    /\ loop.pc = "pktstart_check"
    /\ \E sensor \in SensorVals, sb_id \in SbIds :
         IF AbortsOnPktstart(loop.pktstart_data) \/ IsFalsy(centre_freq(sensor))
         THEN loop' = Listen("aborted", loop.msg)
         ELSE loop' = [pc |-> "datadir", msg |-> loop.msg, array |-> loop.array,
                       instances |-> loop.instances, written |-> loop.written,
                       target_data |-> loop.target_data,
                       pktstart_data |-> loop.pktstart_data, sb_id |-> sb_id, k |-> 1,
                       silent |-> loop.silent]
    /\ UNCHANGED <<coordVars, bus, recTimers, calTimers, calVars, rt, pk, tg, pr>>

\* Line 60: set_datadir for instance numbers 0 and 1.
RecordDatadir ==
    /\ loop.pc = "datadir"
    /\ loop' = [loop EXCEPT !.pc = "group", !.written = @ \o
            <<GatewayMsg("DATADIR", Datadir(0, loop.pktstart_data.pktstart_str, loop.sb_id)),
              GatewayMsg("DATADIR", Datadir(1, loop.pktstart_data.pktstart_str, loop.sb_id))>>]
    /\ UNCHANGED <<coordVars, bus, recTimers, calTimers, calVars, rt, pk, tg, pr>>

\* Lines 63-80: one set_group_key call.  An exception of ra_degrees (line
\* 66) is caught neither by record nor by the loop: start() ends.
RecordGroupKey ==
    /\ loop.pc = "group"
    /\ LET key == GroupKeyOrder[loop.k] IN
         IF key = "RA" /\ RaRaises(loop.target_data.ra)
         THEN loop' = [pc |-> "crashed"]
         ELSE loop' = [loop EXCEPT
                !.pc = IF loop.k = Len(GroupKeyOrder) THEN "started" ELSE "group",
                !.k = @ + 1,
                !.written = Append(@, GatewayMsg(key, GroupKeyValue(key, loop)))]
    /\ UNCHANGED <<coordVars, bus, recTimers, calTimers, calVars, rt, pk, tg, pr>>

\* check_primary_time (lines 196-208): what r.get of the proposal id sensor
\* returns, and the comparison after strip("'").
PRIMARY_ID == "DDT-20230920-DC-01"
ProposalIds ==
    {PyNone} \cup [none : {FALSE}, quoted : BOOLEAN, id : {PRIMARY_ID, "SCI-20230907-MK-01"}]
check_primary_time(proposal_id) ==
    IF proposal_id.none THEN FALSE ELSE proposal_id.id = PRIMARY_ID

\* instance.split("/") (line 225)
Split(instance) ==
    CASE instance = "blpn0/0" -> [host |-> "blpn0", n |-> 0]
      [] instance = "blpn0/1" -> [host |-> "blpn0", n |-> 1]
      [] instance = "blpn1/0" -> [host |-> "blpn1", n |-> 0]

\* add_unprocessed (lines 220-227): what is pushed to <instance>:unprocessed
\* for each instance of its argument `recording`.
add_unprocessed_buf0(rec, pktstart_str, sb_id) ==
    [instance \in rec |-> <<Datadir(0, pktstart_str, sb_id)>>]
add_unprocessed(rec, pktstart_str, sb_id) ==
    [instance \in rec |-> <<Datadir(Split(instance).n, pktstart_str, sb_id)>>]

\* Lines 83-99: the annotation, the new pointing for the target selector,
\* the primary time alert or the unprocessed directories, the metadata.
RecordRegister ==
    /\ loop.pc = "started"
    /\ \E proposal_id \in ProposalIds :
         LET primary == check_primary_time(proposal_id) IN
         loop' = [pc |-> "registered", msg |-> loop.msg, array |-> loop.array,
                  instances |-> loop.instances, written |-> loop.written,
                  silent |-> loop.silent,
                  pktstart_data |-> loop.pktstart_data, sb_id |-> loop.sb_id,
                  pointing |-> TRUE, proposal_id |-> proposal_id,
                  primary_alert |-> primary,
                  unprocessed |->
                     IF primary THEN [instance \in loop.instances |-> <<>>]
                     ELSE add_unprocessed(loop.instances,
                                          loop.pktstart_data.pktstart_str, loop.sb_id),
                  metadata |-> TRUE]
    /\ UNCHANGED <<coordVars, bus, recTimers, calTimers, calVars, rt, pk, tg, pr>>

\* Lines 101-120: the recording timer, the alert, and the return of
\* set(instances), on which the machine goes to Recording.
RecordFinish ==
    /\ loop.pc = "registered"
    /\ recTimers' = [recTimers EXCEPT ![loop.array] = @ + 1]
    /\ act' = [act EXCEPT ![loop.array] = "Recording"]
    /\ recording' = [recording EXCEPT ![loop.array] = loop.instances]
    /\ loop' = Listen("applied", loop.msg)
    /\ UNCHANGED <<mem, free, subscribed, returned, bus, calTimers, calVars, rt, pk, tg, pr>>

NextMain ==
    \/ ReceiveExt \/ ReceiveBus
    \/ DispatchDrop \/ DispatchReturn \/ DispatchUnknown \/ DispatchEvent
    \/ RecordTarget \/ RecordDwell \/ RecordPktstart \/ RecordPktstartCheck
    \/ RecordDatadir \/ RecordGroupKey \/ RecordRegister \/ RecordFinish
    \/ RecTimerFires \/ CalTimerFires

(***************************************************************************)
(* coordinator/rec_util.py: get_cals, one thread per calibration timer     *)
(***************************************************************************)
CalThreads == 1..NumCalThreads
Timestamps == 0..MaxPhaseup

\* r.get of a timestamp key: None when the key is not set.
NoTs == [none |-> TRUE]
Ts(t) == [none |-> FALSE, ts |-> t]

\* `if not x: x = 0 else: x = float(x)` (lines 329-333 and 343-347)
TsOrZero(v) == IF v.none THEN 0 ELSE v.ts

\* Lines 307-325: the endpoint is read, parsed and connected to; a value
\* that does not parse or a connection that fails ends get_cals.
CalStart(t) ==
    /\ calThreads[t].pc = "armed"
    /\ \E ok \in BOOLEAN :
         calThreads' = [calThreads EXCEPT ![t].pc = IF ok THEN "config" ELSE "done",
                                            ![t].connected = ok]
    /\ UNCHANGED <<mainVars, lastCal, lastConfig, phaseup, rt, pk, tg, pr>>

\* Lines 328-333: last_config_ts.
CalReadConfig(t) ==
    /\ calThreads[t].pc = "config"
    /\ calThreads' = [calThreads EXCEPT ![t].pc = "phaseup",
                                        ![t].last_config_ts = TsOrZero(lastConfig)]
    /\ UNCHANGED <<mainVars, lastCal, lastConfig, phaseup, rt, pk, tg, pr>>

\* Lines 334-337: current_cal_ts, and the return when it is older than the
\* last configuration.
CalReadPhaseup(t) ==
    /\ calThreads[t].pc = "phaseup"
    /\ calThreads' = [calThreads EXCEPT
            ![t].current_cal_ts = phaseup,
            ![t].pc = IF phaseup < calThreads[t].last_config_ts THEN "done" ELSE "lastcal"]
    /\ UNCHANGED <<mainVars, lastCal, lastConfig, phaseup, rt, pk, tg, pr>>

\* `if last_cal_ts < current_cal_ts` (line 348)
IsNewerOrEqual(last_cal_ts, current_cal_ts) == last_cal_ts <= current_cal_ts
IsNewer(last_cal_ts, current_cal_ts) == last_cal_ts < current_cal_ts

\* Lines 342-348 and 355: last_cal_ts and the comparison.
CalReadLastCal(t) ==
    /\ calThreads[t].pc = "lastcal"
    /\ calThreads' = [calThreads EXCEPT
            ![t].last_cal_ts = TsOrZero(lastCal),
            ![t].pc = IF IsNewer(TsOrZero(lastCal), calThreads[t].current_cal_ts)
                      THEN "query" ELSE "done"]
    /\ UNCHANGED <<mainVars, lastCal, lastConfig, phaseup, rt, pk, tg, pr>>

\* Line 350: TelInt.query_telstate retrieves and saves the solutions.
CalQuery(t) ==
    /\ calThreads[t].pc = "query"
    /\ calThreads' = [calThreads EXCEPT ![t].pc = "set", ![t].retrieved = TRUE]
    /\ UNCHANGED <<mainVars, lastCal, lastConfig, phaseup, rt, pk, tg, pr>>

\* Lines 352-353: r.set(<array>:last-cal, current_cal_ts).
CalSet(t) ==
    /\ calThreads[t].pc = "set"
    /\ lastCal' = Ts(calThreads[t].current_cal_ts)
    /\ calThreads' = [calThreads EXCEPT ![t].pc = "done"]
    /\ UNCHANGED <<mainVars, lastConfig, phaseup, rt, pk, tg, pr>>

\* The telescope phases up again: the phase-up timestamp moves forward.
PhaseupAdvances ==
    /\ phaseup < MaxPhaseup
    /\ phaseup' = phaseup + 1
    /\ UNCHANGED <<mainVars, lastCal, lastConfig, calThreads, rt, pk, tg, pr>>

ArmedThread ==
    [pc |-> "armed", connected |-> FALSE, last_config_ts |-> 0, current_cal_ts |-> 0,
     last_cal_ts |-> 0, retrieved |-> FALSE]

\* The calibration keys as they can be when the timers are armed: last-cal,
\* if set, was set by get_cals to a phase-up timestamp of the past.
InitCals ==
    /\ phaseup \in Timestamps
    /\ lastConfig \in {NoTs} \cup {Ts(t) : t \in Timestamps}
    /\ lastCal \in {NoTs} \cup {Ts(t) : t \in 0..phaseup}
    /\ calThreads = [t \in CalThreads |-> ArmedThread]

CalsOff ==
    /\ phaseup = 0
    /\ lastConfig = NoTs
    /\ lastCal = NoTs
    /\ calThreads = [t \in CalThreads |-> [pc |-> "off"]]

NextCals ==
    \/ \E t \in CalThreads :
          \/ CalStart(t) \/ CalReadConfig(t) \/ CalReadPhaseup(t)
          \/ CalReadLastCal(t) \/ CalQuery(t) \/ CalSet(t)
    \/ PhaseupAdvances

(***************************************************************************)
(* coordinator_states/proc.py: process, rm_datadir                         *)
(***************************************************************************)
\* A data directory "/<root>/<id>/...": components[1] and components[2] of
\* datadir.split("/") (lines 172-173, 179).
DataDirs == {[root |-> "buf0ro", id |-> "20230101T000000Z-a"],
             [root |-> "buf0ro", id |-> "20230101T000500Z-b"],
             [root |-> "buf0", id |-> "20230101T001000Z-c"]}

\* What run_seticore returns (lines 60-68): the return code of seticore, or
\* 2 when the output directory could not be made.
SeticoreCodes == {0, 1, 2}

\* f"{max_returncode}" (line 164)
CodeStr(c) == IF c = 0 THEN "0" ELSE IF c = 1 THEN "1" ELSE "2"

\* rm_datadir (lines 166-185): False unless the directory is under buf0ro
\* and shutil.rmtree succeeds; rmok holds the directories rmtree can remove.
rm_datadir(datadir, rmok) == datadir.root = "buf0ro" /\ datadir \in rmok

\* Lines 160-161: `if res > max_returncode: max_returncode = res`
MaxAfter(res, max_returncode) ==
    IF res > max_returncode THEN res ELSE max_returncode

\* Line 154: `if res > 1`, the directory is left in place and the
\* `continue` of line 156 goes on to the next one, past lines 157-161.
Keeps(res) == res > 1

\* The loop of lines 152-161 over to_clean in the order `order`, from its
\* i-th directory on.  results[datadir] (line 153) raises KeyError for a
\* directory the loop of lines 129-143 skipped.
RECURSIVE CleanFrom(_, _, _, _, _, _)
CleanFrom(order, i, results, rmok, max_returncode, removed) ==
    IF i > Len(order)
    THEN [raised |-> FALSE, max_returncode |-> max_returncode, removed |-> removed]
    ELSE LET datadir == order[i]
         IN IF datadir \notin DOMAIN results
            THEN [raised |-> TRUE, max_returncode |-> max_returncode,
                  removed |-> removed]
            ELSE IF Keeps(results[datadir])
            THEN CleanFrom(order, i + 1, results, rmok, max_returncode, removed)
            ELSE LET ok == rm_datadir(datadir, rmok)
                     res == IF ok THEN results[datadir] ELSE 2
                 IN CleanFrom(order, i + 1, results, rmok,
                              MaxAfter(res, max_returncode),
                              IF ok THEN removed \cup {datadir} ELSE removed)

\* Line 146 formats `result`, which is bound only when the loop of lines
\* 129-143 has processed a directory: otherwise UnboundLocalError.
ResultUnbound(processed) == processed = {}

\* process (lines 106-164) for the sets read at lines 121 and 125, the
\* directories that exist on disk, the codes seticore returns and the order
\* in which the set to_clean is iterated.
process(unprocessed, preserved, exists, code, rmok, order) ==
    LET processed == unprocessed \cap exists
        results == [d \in processed |-> code[d]]
    IN IF ResultUnbound(processed)
       THEN [raised |-> TRUE, published |-> <<>>, removed |-> {}]
       ELSE LET c == CleanFrom(order, 1, results, rmok, 0, {})
            IN IF c.raised
               THEN [raised |-> TRUE, published |-> <<>>, removed |-> c.removed]
               ELSE [raised |-> FALSE,
                     published |-> <<ReturnMsg(ProcName, CodeStr(c.max_returncode))>>,
                     removed |-> c.removed]

\* The orders in which a set can be iterated.
OrdersOf(S) ==
    {q \in [1..Cardinality(S) -> S] : \A i, j \in DOMAIN q : i # j => q[i] # q[j]}

ProcInputs ==
    {[pc |-> "call", instance |-> i, unprocessed |-> u, preserved |-> p,
      exists |-> e, code |-> c, rmok |-> k] :
        i \in CfgInstances, u \in SUBSET DataDirs, p \in SUBSET DataDirs,
        e \in SUBSET DataDirs, c \in [DataDirs -> SeticoreCodes],
        k \in SUBSET DataDirs}

ProcOff == pr = [pc |-> "off"]

ProcessCall ==
    /\ pr.pc = "call"
    /\ \E order \in OrdersOf(pr.unprocessed \ pr.preserved) :
         pr' = [pc |-> "done", instance |-> pr.instance,
                unprocessed |-> pr.unprocessed, preserved |-> pr.preserved,
                exists |-> pr.exists, code |-> pr.code, rmok |-> pr.rmok,
                res |-> process(pr.unprocessed, pr.preserved, pr.exists, pr.code,
                                pr.rmok, order)]
    /\ UNCHANGED <<mainVars, calVars, rt, pk, tg>>

(***************************************************************************)
(* Specifications                                                          *)
(***************************************************************************)
Init == InitMain /\ CalsOff /\ RetryOff /\ PktOff /\ TargetOff /\ ProcOff
Next == NextMain
Spec == Init /\ [][Next]_vars

InitRetry == rt \in RetryInputs /\ PktOff /\ MainOff /\ CalsOff /\ TargetOff /\ ProcOff
NextRetry == RetryCall
SpecRetry == InitRetry /\ [][NextRetry]_vars

InitPkt == pk \in PktInputs /\ RetryOff /\ MainOff /\ CalsOff /\ TargetOff /\ ProcOff
NextPkt == PktstartCall
SpecPkt == InitPkt /\ [][NextPkt]_vars

InitTarget == tg \in TargetInputs /\ RetryOff /\ PktOff /\ MainOff /\ CalsOff /\ ProcOff
NextTarget == TargetCall
SpecTarget == InitTarget /\ [][NextTarget]_vars

InitProc == pr \in ProcInputs /\ RetryOff /\ PktOff /\ MainOff /\ CalsOff /\ TargetOff
NextProc == ProcessCall
SpecProc == InitProc /\ [][NextProc]_vars

InitCalsSpec == InitCals /\ MainOff /\ RetryOff /\ PktOff /\ TargetOff /\ ProcOff
SpecCals == InitCalsSpec /\ [][NextCals]_vars

(***************************************************************************)
(* Properties                                                              *)
(***************************************************************************)
SetMax(S) == CHOOSE m \in S : \A x \in S : x <= m
Range(q) == {q[i] : i \in DOMAIN q}
InRecord == loop.pc \in {"target", "dwell", "pktstart", "pktstart_check", "datadir",
                         "group", "started", "registered"}
WrittenKeys == {loop.written[i].key : i \in DOMAIN loop.written}
Scoped(a, e) == loop.pc = "dispatch" /\ loop.msg.data = <<a, e>>
StartMsg(a) == Msg(<<a, "start">>, {})

\* C1: the coordinator seeds every subarray Ready and Free, and in every
\* reachable state the activity state of every subarray is one of Ready,
\* Recording, Processing and its membership state one of Free, Subscribed.
C1_States ==
    /\ \A a \in Arrays : act[a] = "Ready" /\ mem[a] = "Free"
    /\ [](\A a \in Arrays : /\ act[a] \in {"Ready", "Recording", "Processing"}
                            /\ mem[a] \in {"Free", "Subscribed"})

C1_Witness ==
    /\ act["array1"] = "Processing" /\ mem["array1"] = "Subscribed"
    /\ act["array2"] = "Recording" /\ mem["array2"] = "Free"

\* An event delivered to subarray a that its composite state does not allow.
IllegalEvent(a, e) ==
    \/ e = "start" /\ ~(act[a] = "Ready" /\ mem[a] = "Subscribed")
    \/ e = "stop" /\ act[a] # "Recording"
    \/ e = "subscribe" /\ mem[a] # "Free"
    \/ e = "unsubscribe" /\ mem[a] # "Subscribed"

\* C2: handling an event that is illegal in the composite state of its
\* subarray changes neither machine of the subarray and has no side effect:
\* record is not entered (so that no key is written), nothing is published
\* and no timer is armed; a RETURN leaves every subarray that is not in
\* Processing as it is.
C2_IllegalIsNoOp ==
    [][/\ \A a \in Arrays, e \in {"start", "stop", "subscribe", "unsubscribe"} :
            (Scoped(a, e) /\ IllegalEvent(a, e) /\ loop' # loop) =>
                /\ loop' = Listen("rejected", loop.msg)
                /\ UNCHANGED <<act, mem, free, subscribed, recording, returned,
                               bus, recTimers, calTimers>>
       /\ \A a \in Arrays :
            (loop.pc = "dispatch" /\ loop.msg.data # <<>> /\ loop.msg.data[1] = "RETURN"
             /\ act[a] # "Processing") =>
                /\ act'[a] = act[a] /\ mem'[a] = mem[a] /\ subscribed'[a] = subscribed[a]
                /\ recording'[a] = recording[a] /\ returned'[a] = returned[a]
                /\ (loop' # loop => UNCHANGED <<bus, recTimers, calTimers>>)
      ]_vars

C2_Witness ==
    /\ loop = Listen("rejected", StartMsg("array1"))
    /\ act["array1"] = "Recording"
    /\ mem["array1"] = "Subscribed"

\* The position of the first message for key in the gateway messages record
\* has published in this call, 0 when there is none.
FirstPos(key) ==
    LET P == {i \in DOMAIN loop.written : loop.written[i].key = key}
    IN IF P = {} THEN 0 ELSE CHOOSE i \in P : \A j \in P : i <= j
SessionKeys == {"DWELL", "DATADIR", "SRC_NAME", "RA", "RA_STR", "DEC", "DEC_STR", "OBSID"}

\* C3: in a run of record PKTSTART is published after DWELL, DATADIR,
\* SRC_NAME, RA, RA_STR, DEC, DEC_STR and OBSID, with SRC_NAME, RA, DEC,
\* OBSID, PKTSTART in that order; PKTSTART is never out while one of the
\* others is not, and a run that starts a recording has published them all,
\* PKTSTART last.
C3_PktstartLast ==
    InRecord =>
        /\ FirstPos("PKTSTART") > 0 =>
              /\ \A k \in SessionKeys : 0 < FirstPos(k) /\ FirstPos(k) < FirstPos("PKTSTART")
              /\ FirstPos("SRC_NAME") < FirstPos("RA")
              /\ FirstPos("RA") < FirstPos("DEC")
              /\ FirstPos("DEC") < FirstPos("OBSID")
              /\ loop.written[Len(loop.written)].key = "PKTSTART"
        /\ loop.pc = "started" => FirstPos("PKTSTART") > 0

C3_Witness ==
    /\ loop.pc = "started"
    /\ loop.written[Len(loop.written)] =
          GatewayMsg("PKTSTART", PyStr(loop.pktstart_data.pktstart))
    /\ WrittenKeys = SessionKeys \cup {"PKTSTART"}

\* C4: for a non-empty collection of reported packet indices get_pktstart
\* computes max(indices) + margin whatever the order in which the instances
\* are asked, and fails then only on the plausibility of that value.
C4_MaxPlusMargin ==
    pk.pc = "done" =>
        LET S == Range(pk.instances)
            rep == Reported(S, pk.status)
        IN /\ rep # {} =>
                /\ pk.res.none => pk.res.alert
                /\ ~pk.res.none => pk.res.pktstart = SetMax(rep) + pk.margin
           /\ \A o \in Orders(S) :
                get_pktstart(o, pk.status, pk.margin, pk.now) = pk.res

C4_Witness ==
    /\ pk.pc = "done"
    /\ pk.margin = 50
    /\ Len(pk.instances) = 3
    /\ [i \in 1..3 |-> StrToInt(pk.status[pk.instances[i]].PKTIDX)] = <<150, 200, 100>>
    /\ Reported(Range(pk.instances), pk.status) = {100, 150, 200}
    /\ ~pk.res.none
    /\ pk.res.pktstart = 250

\* C5: instances whose status hash is empty, lacks NETSTAT, has NETSTAT idle
\* or lacks PKTIDX do not count; when no instance is left (or there is no
\* instance) get_pktstart returns None without an alert, not an index, and
\* record returns at once: nothing more is published, no PKTSTART, no timer
\* is armed and the subarray stays as it was.
C5_NoReportNoSession ==
    /\ [](/\ \A now \in NowVals :
                get_pktstart(<<>>, <<>>, PKTIDX_MARGIN, now) = [none |-> TRUE, alert |-> FALSE]
          /\ loop.pc = "pktstart_check" =>
                /\ loop.reported = {} =>
                      /\ loop.pktstart_data = [none |-> TRUE, alert |-> FALSE]
                      /\ "PKTSTART" \notin WrittenKeys
                /\ ~loop.pktstart_data.none =>
                      loop.pktstart_data.pktstart = SetMax(loop.reported) + PKTIDX_MARGIN)
    /\ [][(loop.pc = "pktstart_check" /\ loop.reported = {} /\ loop' # loop) =>
              /\ loop' = Listen("aborted", loop.msg)
              /\ UNCHANGED <<act, mem, free, subscribed, recording, returned,
                             bus, recTimers, calTimers>>]_vars

C5_Witness ==
    /\ loop.pc = "pktstart_check"
    /\ Cardinality(loop.instances) = 2
    /\ loop.reported = {}
    /\ loop.pktstart_data.none

\* The distance of the wall-clock time of PKTSTART from the clock reading.
PktstartSkew == Abs(pktidx_to_timestamp(SetMax(loop.reported) + PKTIDX_MARGIN) - loop.now)

\* C6: a PKTSTART more than two minutes away from the current time, in
\* either direction, makes get_pktstart return None with an alert and
\* record return; one that is two minutes away or less is returned and
\* record goes on past line 45.
C6_TwoMinutes ==
    /\ [](loop.pc = "pktstart_check" /\ loop.reported # {} =>
            /\ PktstartSkew > TWO_MINUTES =>
                  loop.pktstart_data = [none |-> TRUE, alert |-> TRUE]
            /\ PktstartSkew <= TWO_MINUTES =>
                  /\ ~loop.pktstart_data.none
                  /\ ~loop.pktstart_data.alert
                  /\ ~AbortsOnPktstart(loop.pktstart_data))
    /\ [][(/\ loop.pc = "pktstart_check" /\ loop.reported # {}
           /\ PktstartSkew > TWO_MINUTES /\ loop' # loop) =>
              /\ loop' = Listen("aborted", loop.msg)
              /\ UNCHANGED <<act, recording, recTimers, bus>>]_vars

C6_Witness ==
    /\ loop.pc = "pktstart_check"
    /\ loop.reported # {}
    /\ PktstartSkew = TWO_MINUTES
    /\ ~loop.pktstart_data.none

\* C7: the value of <array>:last-cal never decreases, whatever the
\* interleaving of the get_cals executions of the subarray.
C7_LastCalMonotone == [][TsOrZero(lastCal') >= TsOrZero(lastCal)]_vars

\* The first attempt in 1..retries that neither raises nor returns a falsy
\* value, 0 when there is none.
FirstTruthy(retries, outs) ==
    LET T == {i \in 1..retries :
                ~outs[i].raises /\ outs[i].value \notin {PyNone, PyZero}}
    IN IF T = {} THEN 0 ELSE CHOOSE i \in T : \A j \in T : i <= j

\* C8: retry invokes the function at most `retries` times, returns the
\* first truthy result without invoking it again, takes a falsy result and
\* an exception for a failed attempt, and returns None without raising when
\* no attempt is truthy; a function that fails twice and then succeeds
\* gives its value for retries >= 3 and None for retries = 2.
C8_Retry ==
    rt.pc = "done" =>
        LET ft == FirstTruthy(rt.retries, rt.outs) IN
        /\ rt.res.calls <= rt.retries
        /\ ~rt.res.raised
        /\ ft > 0 => rt.res.output = rt.outs[ft].value /\ rt.res.calls = ft
        /\ ft = 0 => rt.res.output = PyNone /\ rt.res.calls = rt.retries
        /\ FirstTruthy(3, rt.outs) = 3 =>
              /\ rt.retries >= 3 => rt.res.output = rt.outs[3].value
              /\ rt.retries = 2 => rt.res.output = PyNone

C8_Witness ==
    /\ rt.pc = "done"
    /\ rt.retries = 3
    /\ rt.outs[1].raises
    /\ rt.outs[2] = [raises |-> FALSE, value |-> PyZero]
    /\ rt.res = [output |-> [none |-> FALSE, int |-> 2], raised |-> FALSE,
                 calls |-> 3, sleeps |-> 1]

\* C9: the activity state changes only along Ready -> Recording ->
\* Processing -> Ready; a subarray enters Recording only from Ready, only
\* while the loop handles a "start" event of that subarray and only while
\* it is Subscribed; a "start" handled while it is Free is rejected.
C9_Cycle ==
    [][\A a \in Arrays :
        /\ act'[a] # act[a] =>
              /\ <<act[a], act'[a]>> \in {<<"Ready", "Recording">>,
                                          <<"Recording", "Processing">>,
                                          <<"Processing", "Ready">>}
              /\ act'[a] = "Recording" =>
                    /\ InRecord /\ loop.msg = StartMsg(a)
                    /\ mem[a] = "Subscribed"
        /\ (Scoped(a, "start") /\ mem[a] = "Free" /\ loop' # loop) =>
              loop' = Listen("rejected", loop.msg) /\ act' = act
      ]_vars

C9_Witness ==
    /\ loop = Listen("applied", StartMsg("array1"))
    /\ act["array1"] = "Recording"
    /\ mem["array1"] = "Subscribed"

\* C10: a subarray leaves Processing for Ready only while the loop handles
\* the RETURN of one of its own instances and every one of its instances has
\* then returned; the returns it counts are those of its own instances only,
\* and the RETURN of another instance changes nothing of it.
C10_AllReturned ==
    [][\A a \in Arrays :
        LET isReturn == /\ loop.pc = "dispatch" /\ Len(loop.msg.data) >= 2
                        /\ loop.msg.data[1] = "RETURN"
            inst == loop.msg.data[2]
        IN /\ (act[a] = "Processing" /\ act'[a] = "Ready") =>
                 /\ isReturn
                 /\ inst \in recording[a]
                 /\ recording[a] = returned[a] \cup {inst}
           /\ (act[a] = "Processing" /\ returned'[a] # returned[a]) =>
                 /\ isReturn
                 /\ inst \in recording[a]
                 /\ returned'[a] = IF act'[a] = "Ready" THEN {} ELSE returned[a] \cup {inst}
           /\ (act[a] = "Processing" /\ isReturn /\ inst \notin recording[a]) =>
                 act'[a] = act[a] /\ returned'[a] = returned[a]
      ]_vars

C10_Witness ==
    /\ loop = Listen("applied", ReturnMsg("blpn0/1", "0"))
    /\ act["array1"] = "Ready"
    /\ subscribed["array1"] = CfgInstances
    /\ act["array2"] = "Ready"

\* The state both machines of subarray a hold.
MachineState(a) == <<act[a], mem[a], subscribed[a], recording[a], returned[a]>>

Malformed(message) ==
    \/ Len(message.data) < 2
    \/ message.data[1] \notin Arrays \cup {"RETURN"}

\* C12: a message without an event component or with a scope that is
\* neither RETURN nor a configured subarray is dropped: the loop goes back
\* to listening with every machine as it was, and the loop never ends.
C12_MalformedDropped ==
    /\ [](loop.pc # "crashed")
    /\ [][(loop.pc = "dispatch" /\ Malformed(loop.msg) /\ loop' # loop) =>
              /\ loop' = Listen("dropped", loop.msg)
              /\ UNCHANGED coordVars]_vars

\* C13: a run of record that starts a recording arms one recording timer
\* of the subarray; the message the timer publishes is handled as a stop of
\* that subarray, which takes it from Recording to Processing.
C13_TimeoutStops ==
    [][/\ \A a \in Arrays :
            (act[a] # "Recording" /\ act'[a] = "Recording") =>
                recTimers' = [recTimers EXCEPT ![a] = @ + 1]
       /\ \A a \in Arrays :
            (/\ loop.pc = "dispatch" /\ loop.msg = TimeoutMsg(a)
             /\ act[a] = "Recording" /\ loop' # loop) =>
                /\ act'[a] = "Processing"
                /\ loop'.pc = "listen"
      ]_vars

\* C14: a RETURN message reaches the activity machine of every subarray
\* (each one in Processing counts it) and no membership machine; any other
\* message, and the run of record it starts, changes at most the machines
\* of the subarray it names.
C14_Delivery ==
    [][/\ (loop.pc = "dispatch" /\ ~Malformed(loop.msg) /\ loop.msg.data[1] = "RETURN"
           /\ loop' # loop) =>
              /\ UNCHANGED <<mem, free, subscribed>>
              /\ \A a \in Arrays :
                    act[a] = "Processing" =>
                       LET c == Counts(a, loop.msg.data[2]) IN
                       /\ act'[a] = IF c = recording[a] THEN "Ready" ELSE "Processing"
                       /\ returned'[a] = IF c = recording[a] THEN {} ELSE c
       /\ \A a \in Arrays :
            (/\ \/ loop.pc = "dispatch" /\ ~Malformed(loop.msg) /\ loop.msg.data[1] = a
                \/ InRecord /\ loop.array = a) =>
                \A b \in Arrays \ {a} : MachineState(b)' = MachineState(b)
      ]_vars

C14_Witness ==
    /\ loop = Listen("applied", ReturnMsg("blpn0/0", "0"))
    /\ act = [a \in Arrays |-> "Ready"]
    /\ mem["array1"] = "Free"
    /\ mem["array2"] = "Subscribed"
    /\ subscribed["array2"] = {"blpn0/0"}
    /\ free = {"blpn0/1"}

\* C15: a run of record that gives up (target, PKTSTART, centre frequency)
\* has published none of the session parameters, has registered no
\* directory and no metadata, and leaves every machine as it was.
C15_NoPartialSession ==
    [][(InRecord /\ loop'.pc = "listen" /\ loop'.last = "aborted") =>
          /\ loop.written = <<>>
          /\ loop.pc \notin {"started", "registered"}
          /\ UNCHANGED coordVars]_vars

\* The keys of the gateway messages a step of record publishes.
NewKeys ==
    IF InRecord /\ loop'.pc \in {"dwell", "pktstart", "pktstart_check", "datadir",
                                 "group", "started", "registered"}
    THEN {loop'.written[i].key : i \in (Len(loop.written) + 1)..Len(loop'.written)}
    ELSE {}

\* C16: PKTSTART, OBSID and DATADIR are published only by a run of record
\* for a subarray that is not Recording, PKTSTART once in a run; a "start"
\* handled while the subarray is Recording is rejected and begins no run.
C16_PktstartOnce ==
    [][/\ NewKeys \cap {"PKTSTART", "OBSID", "DATADIR"} # {} =>
              act[loop.array] = "Ready"
       /\ "PKTSTART" \in NewKeys => "PKTSTART" \notin WrittenKeys
       /\ \A a \in Arrays :
            (Scoped(a, "start") /\ act[a] = "Recording" /\ loop' # loop) =>
                loop' = Listen("rejected", loop.msg)
      ]_vars

C16_Witness ==
    /\ loop = Listen("rejected", StartMsg("array2"))
    /\ act["array2"] = "Recording"
    /\ recording["array2"] = CfgInstances

\* What get_cals decides on, from the values execution t has read.
Accepts(t) ==
    /\ calThreads[t].connected
    /\ calThreads[t].current_cal_ts >= calThreads[t].last_config_ts
    /\ calThreads[t].last_cal_ts < calThreads[t].current_cal_ts

\* C17: an execution of get_cals has retrieved the solutions exactly when it
\* has connected, the phase-up timestamp it read is not older than the
\* last-config it read and is newer than the last-cal it read (0 for an
\* unset key); last-cal changes only by such an execution, to the phase-up
\* timestamp it read, and get_cals changes nothing of the coordinator.
C17_GetCalsIff ==
    /\ [](\A t \in CalThreads :
            calThreads[t].pc = "done" => (calThreads[t].retrieved <=> Accepts(t)))
    /\ [][/\ lastCal' # lastCal =>
                \E t \in CalThreads :
                    /\ calThreads[t].pc = "set" /\ calThreads'[t].pc = "done"
                    /\ Accepts(t) /\ calThreads[t].retrieved
                    /\ lastCal' = Ts(calThreads[t].current_cal_ts)
          /\ UNCHANGED mainVars]_vars

C17_Witness ==
    /\ calThreads[1].pc = "done"
    /\ calThreads[1].retrieved
    /\ calThreads[1].last_config_ts = 1
    /\ calThreads[1].last_cal_ts = 1
    /\ calThreads[1].current_cal_ts = 2
    /\ lastCal = Ts(2)
    /\ calThreads[2].pc = "done"
    /\ calThreads[2].connected
    /\ ~calThreads[2].retrieved

\* C18: record ends by returning, never by an exception: every step of it
\* leads to the next step or back to the loop; when it returns nothing it
\* has not published PKTSTART or the new pointing and has armed no
\* recording timer.
C18_ReturnsNoRaise ==
    [][InRecord =>
          /\ loop'.pc # "crashed"
          /\ (loop'.pc = "listen" /\ loop'.last = "aborted") =>
                /\ "PKTSTART" \notin WrittenKeys
                /\ loop.pc \in {"target", "pktstart_check"}
                /\ recTimers' = recTimers]_vars

\* C19: the timeout message of a subarray that is not Recording changes no
\* machine and the loop goes on listening.
C19_LateTimeoutNoOp ==
    [][\A a \in Arrays :
        (/\ loop.pc = "dispatch" /\ loop.msg = TimeoutMsg(a)
         /\ act[a] # "Recording" /\ loop' # loop) =>
            /\ loop'.pc = "listen"
            /\ UNCHANGED coordVars]_vars

\* The instance number in the name of a configured instance.
NumberOf == [i \in CfgInstances |-> IF i = "blpn0/1" THEN 1 ELSE 0]

\* C20: in a run of record that starts a recording, a proposal id equal to
\* the primary time identifier gives the alert and no push to any
\* <instance>:unprocessed; otherwise each assigned instance host/n, silent
\* or not, gets exactly one push, of /buf<n>/<pktstart_str>-<sb_id>, which is
\* a DATADIR the run has published.
C20_Unprocessed ==
    loop.pc = "registered" =>
        LET isPrimary == ~loop.proposal_id.none /\ loop.proposal_id.id = "DDT-20230920-DC-01"
        IN /\ DOMAIN loop.unprocessed = loop.instances
           /\ isPrimary =>
                 /\ loop.primary_alert
                 /\ \A i \in loop.instances : loop.unprocessed[i] = <<>>
           /\ ~isPrimary =>
                 \A i \in loop.instances :
                    /\ loop.unprocessed[i] =
                          <<<<"/buf", NumberOf[i], loop.pktstart_data.pktstart_str, loop.sb_id>>>>
                    /\ \E j \in DOMAIN loop.written :
                          /\ loop.written[j].key = "DATADIR"
                          /\ loop.written[j] = GatewayMsg("DATADIR", loop.unprocessed[i][1])

C20_Witness ==
    /\ loop.pc = "registered"
    /\ loop.instances = CfgInstances
    /\ loop.silent = {"blpn0/1"}
    /\ loop.proposal_id = [none |-> FALSE, quoted |-> TRUE, id |-> "SCI-20230907-MK-01"]
    /\ Len(loop.unprocessed["blpn0/1"]) = 1
    /\ loop.unprocessed["blpn0/1"][1][2] = 1

\* An attempt that retry counts as failed.
NoResult(o) == o.raises \/ o.value.none

StaleTimeout(a) ==
    /\ loop.pc = "dispatch"
    /\ loop.msg = TimeoutMsg(a)
    /\ act[a] = "Recording"
    /\ recTimers[a] > 0

\* C22: a recording session of a subarray is moved to Processing by a
\* timeout only if that session armed the timer: the message of a timer
\* that an earlier session of the subarray armed (one that a stop ended and
\* whose processing is complete, the timer of the present session being
\* still armed) never ends the present session; a session ends only in the
\* dispatch of a stop or timeout message of its subarray.
C22_OwnTimeoutOnly ==
    [][\A a \in Arrays :
          /\ StaleTimeout(a) => act'[a] = "Recording"
          /\ (act[a] = "Recording" /\ act'[a] # "Recording") =>
                /\ loop.pc = "dispatch"
                /\ loop.msg \in {Msg(<<a, "stop">>, {}), TimeoutMsg(a)}
                /\ act'[a] = "Processing"]_vars

\* The timeout message of an earlier session is being dispatched while the
\* subarray records again, the timer of this session still armed.
C22_Witness == \E a \in Arrays : StaleTimeout(a) /\ recording[a] # {}

\* C23: every invocation of process ends by publishing exactly one message
\* RETURN:<instance>:<code> on the proc_result channel, whatever the
\* unprocessed and preserved sets hold, an empty unprocessed set and
\* directories that are no longer on disk included.
C23_OneReturn ==
    pr.pc = "done" =>
        /\ ~pr.res.raised
        /\ \E c \in {"0", "1", "2"} : pr.res.published = <<ReturnMsg(pr.instance, c)>>

\* What process removed was unprocessed, not preserved, on disk and given a
\* code of at most 1 by seticore.
RemovesOnlyProcessed ==
    pr.pc = "done" =>
        \A d \in pr.res.removed :
            /\ d \in pr.unprocessed
            /\ d \notin pr.preserved
            /\ d \in pr.exists
            /\ pr.code[d] <= 1

\* A published code of 0 means every directory to clean was processed with
\* code 0 and removed.
ZeroMeansClean ==
    (pr.pc = "done" /\ Len(pr.res.published) = 1
        /\ pr.res.published[1].data[3] = "0") =>
        \A d \in pr.unprocessed \ pr.preserved :
            d \in pr.exists /\ pr.code[d] = 0 /\ d \in pr.res.removed

\* C24: process removes a data directory only if it is in the unprocessed
\* set, not in the preserved set, and seticore returned at most 1 for it;
\* and the code of the RETURN message is 0 only if every unprocessed
\* directory that is not preserved was processed with code 0 and removed.
C24_RemoveAndCode == RemovesOnlyProcessed /\ ZeroMeansClean

=============================================================================
